---- MODULE Spec2Model ----
(***************************************************************************)
(* Browser voice turn pipeline of ameliavoice: the useVoiceConversation    *)
(* hook (VAD polling loop, recorder, stopRecordingAndSend pipeline), the   *)
(* chat store it appends to and the toggle button that drives it.          *)
(*                                                                         *)
(* RMS values are in thousandths (0.015 is 15); times are milliseconds.    *)
(***************************************************************************)
EXTENDS Integers, Sequences, FiniteSets, TLC

\* ------------------------------------------------------------ constants
SILENCE_RMS_THRESHOLD == 15
SPEECH_RMS_THRESHOLD == 25
BARGE_IN_ENABLED == FALSE
BARGE_IN_RMS_THRESHOLD == 20
SILENCE_MS == 1000
DEFAULT_SAMPLE_RATE == 16000
MIN_RECORDING_MS == 600

\* ------------------------------------------------------------ bounds
\* Number of stopRecordingAndSend invocations that reach the transcription call.
MaxTurns == 3
\* Last clock value; the clock starts at Epoch and advances by TickSteps. A turn
\* takes two steps of the clock, so MaxNow admits two turns and MaxNowEnd three.
MaxNow == 5000
MaxNowEnd == 7000
\* requestAnimationFrame callbacks that may be pending when a start is accepted.
MaxLoops == 1
\* last value of performance.now(), in half milliseconds, in SpecLat
MaxPerf == 3
\* last value of Date.now() in the behaviours of SpecVad
MaxNowVad == 3000
\* final messages a streaming session receives, chunks its caller hands over
MaxFragments == 3
MaxChunks == 2
\* media frames a telephony call delivers
MaxFrames == 6
\* turns of the call a call-detail page is opened on
MaxCallTurns == 2

Epoch == {1000}
TickSteps == {1000}
\* steps of Date.now() between polls in SpecVad
TickStepsVad == {100, 500}
\* steps of performance.now(), in half milliseconds
PerfSteps == {1, 2}
\* below silence, at silence threshold, hysteresis band, at speech threshold, above
RmsLevels == {5, 15, 20, 25, 40}
\* result.text values returned by the transcription collaborator
Transcripts == {<<>>, <<" ">>, <<"a">>, <<" ", "a", " ">>}
ReplyText == <<"r">>

\* the text of a final message: none, a word, a blank
\* the ids of the calls, the RMS of a silent frame and of a frame with speech
CallIds == {"CA123", "CA456"}
FrameLevels == {5, 40}
\* minimum recording duration and required silence of the telephony detector,
\* in frames
TEL_MIN_FRAMES == 2
TEL_SILENCE_FRAMES == 1
FragmentTexts == {<<>>, <<"a">>, <<" ">>}
Languages == {"ja-JP", "en-US"}
SampleRates == {DEFAULT_SAMPLE_RATE, 8000}

NULL == 0 - 1
Runs == 1..MaxTurns

VARIABLES
  \* settings / browser
  continuousVoiceMode, mediaDevices, now, perfNow,
  \* the build: the value BARGE_IN_ENABLED was compiled with
  bargeInEnabled,
  \* hook state
  isListening, isProcessing, error,
  \* hook refs
  streamRef, recorderRef, chunksRef, analyserRef, silenceStartRef, hasSpokenRef,
  animationRef, recordingStartRef, userRequestedStopRef, messagesRef, currentTTSRef,
  \* chat store
  messages,
  \* environment: pending getUserMedia, pending animation frames, recorders that
  \* are still recording but no longer referenced, pipeline invocations
  gumPending, rafQueue, strayRecorders, runs, nRuns,
  \* observation of the last step and history flags
  gOp, gRun, gEou, gRestarts, gObs, gFrames, gStopped, gEcEnded,
  \* the other components: a streaming transcription session, the call-detail
  \* page, a telephony call
  ws, detail, call

hookVars == <<continuousVoiceMode, mediaDevices, now, perfNow, bargeInEnabled, isListening,
          isProcessing, error,
          streamRef, recorderRef, chunksRef, analyserRef, silenceStartRef,
          hasSpokenRef, animationRef, recordingStartRef, userRequestedStopRef,
          messagesRef, currentTTSRef, messages, gumPending, rafQueue,
          strayRecorders, runs, nRuns, gOp, gRun, gEou, gRestarts, gObs, gFrames,
          gStopped, gEcEnded>>

vars == <<hookVars, ws, detail, call>>

\* ------------------------------------------------------------ helpers
IsPrefix(a, b) == Len(a) <= Len(b) /\ SubSeq(b, 1, Len(a)) = a

RECURSIVE TrimLeft(_)
TrimLeft(s) == IF s # <<>> /\ Head(s) = " " THEN TrimLeft(Tail(s)) ELSE s

RECURSIVE TrimRight(_)
TrimRight(s) ==
  IF s # <<>> /\ s[Len(s)] = " " THEN TrimRight(SubSeq(s, 1, Len(s) - 1)) ELSE s

\* String.prototype.trim
Trim(s) == TrimRight(TrimLeft(s))

\* A streaming transcription session as startStreamingTranscribe leaves it:
\* the socket is connecting, nothing is sent, no fragment is kept, the end
\* promise is pending.
\*  readyState: of the WebSocket; sent: the messages handed to ws.send, in order
\*  finalParts, resolved: the closure's variables; result: what the end promise
\*  resolved with (NULL: pending)
\*  received, endCalled, how: history (the text of every final message in
\*  arrival order, end() was called, the handler that resolved the promise)
\*  chunks, endAt: history (the number of sendChunk calls; its value when end()
\*  was called); a chunk message in sent carries the number of its call
NewSession(languageCode, sampleRate) ==
  [languageCode |-> languageCode, sampleRate |-> sampleRate,
   readyState |-> "CONNECTING", sent |-> <<>>, finalParts |-> <<>>,
   resolved |-> FALSE, result |-> NULL,
   received |-> <<>>, endCalled |-> FALSE, how |-> "none",
   chunks |-> 0, endAt |-> 0]

\* The call-detail page of one call as its first render leaves it, and the call
\* on the server.
\*  turns, currentTurn: the component's state; currentTurn is <<>> for null and
\*    <<partial>> otherwise
\*  fetch: the getVoiceCall request ("pending": not yet read by the server,
\*    "served": its response, data, is on its way, "done", "failed")
\*  live: the socket of useVoiceCallLive; queue: the events on their way to it
\*  srvTurns, srvStage, srvK: the call on the server: its finalized turns, the
\*    stage its turn in progress has completed, the number of that turn
\*  seen, appended: history (the events handled since the last tts_done; the
\*    number of turns the last handled event appended)
NewDetail ==
  [turns |-> <<>>, currentTurn |-> <<>>, fetch |-> "pending", data |-> <<>>,
   live |-> "connecting", queue |-> <<>>,
   srvTurns |-> <<>>, srvStage |-> "idle", srvK |-> 1,
   seen |-> <<>>, appended |-> 0]

\* The media connection of a telephony call before its start message.
\*  state: "none", "active" (session created by start), "ended" (finalized)
\*  call_id, stream_id, turns, partial, ended: the call session; partial is <<>>
\*    or <<partial turn>>; ended counts the times end_time was set
\*  stage: of the turn pipeline; has_spoken, silence_start, recording_start: the
\*    VAD state, in frames; n: frames received
\*  stt, llm, tts: calls made to the three collaborators
\*  startId, frames: history (the id the start message carried, the levels of
\*    the media frames received)
NoCall ==
  [state |-> "none", call_id |-> "", stream_id |-> "", turns |-> <<>>,
   partial |-> <<>>, ended |-> 0, stage |-> "idle",
   has_spoken |-> FALSE, silence_start |-> NULL, recording_start |-> 0, n |-> 0,
   stt |-> 0, llm |-> 0, tts |-> 0, startId |-> "", frames |-> <<>>]

\* One invocation of stopRecordingAndSend past its guards.
\*  pc: the await it is suspended at ("none" not started, "returned" finished)
\*  audio: the Audio element it created; endSession: its endVoiceSession call
\*  errs, stopReq: history (setError calls in catch; stop requested mid-call)
\*  current: startListening has not been called since this invocation began
\*  sent: the messages argument of its chat() call
\*  t0: performance.now() at the start of the stage call in flight
\*  stt_ms, llm_ms: the latencies measured so far
IdleRun == [pc |-> "none", endConversation |-> FALSE, audio |-> "none",
            endSession |-> "none", errs |-> 0, stopReq |-> FALSE,
            current |-> TRUE, sent |-> <<>>, t0 |-> 0, stt_ms |-> 0,
            llm_ms |-> 0]

\* Math.round of a number of half milliseconds: the nearest integer, a half
\* rounded up
MathRound(h) == (h + 1) \div 2

\* Variant: the start time and the end time are exchanged.
Latency_Reversed(t0, t1) == MathRound(t0 - t1)

\* Math.round(performance.now() - t0), performance.now() being t1
Latency(t0, t1) == MathRound(t1 - t0)

\*  barged: the invocation whose reply audio the poll took the barge-in branch
\*  for (0: the branch was not taken)
NoObs == [polled |-> FALSE, spoken |-> FALSE, elapsed |-> 0, runSpan |-> NULL,
          qualSpan |-> NULL, frame |-> "none", timing |-> FALSE, barged |-> 0]
\* frames polled during the current recording: whether one exceeded the speech
\* threshold, when the trailing below-silence run began, and when its first frame
\* at or past the minimum recording duration was polled
NoFrames == [spoken |-> FALSE, runStart |-> NULL, qualStart |-> NULL]

\* The mutable state the handlers work on, as one record.
Cur == [isListening |-> isListening, isProcessing |-> isProcessing, error |-> error,
        streamRef |-> streamRef, recorderRef |-> recorderRef, chunksRef |-> chunksRef,
        analyserRef |-> analyserRef, silenceStartRef |-> silenceStartRef,
        hasSpokenRef |-> hasSpokenRef, animationRef |-> animationRef,
        recordingStartRef |-> recordingStartRef,
        userRequestedStopRef |-> userRequestedStopRef, messagesRef |-> messagesRef,
        currentTTSRef |-> currentTTSRef, messages |-> messages,
        gumPending |-> gumPending, rafQueue |-> rafQueue,
        strayRecorders |-> strayRecorders, runs |-> runs, nRuns |-> nRuns,
        gOp |-> gOp, gRun |-> gRun, gEou |-> gEou, gRestarts |-> gRestarts,
        gObs |-> gObs, gFrames |-> gFrames, gStopped |-> gStopped,
        gEcEnded |-> gEcEnded]

Set(s) ==
  /\ isListening' = s.isListening /\ isProcessing' = s.isProcessing
  /\ error' = s.error /\ streamRef' = s.streamRef /\ recorderRef' = s.recorderRef
  /\ chunksRef' = s.chunksRef /\ analyserRef' = s.analyserRef
  /\ silenceStartRef' = s.silenceStartRef /\ hasSpokenRef' = s.hasSpokenRef
  /\ animationRef' = s.animationRef /\ recordingStartRef' = s.recordingStartRef
  /\ userRequestedStopRef' = s.userRequestedStopRef /\ messagesRef' = s.messagesRef
  /\ currentTTSRef' = s.currentTTSRef /\ messages' = s.messages
  /\ gumPending' = s.gumPending /\ rafQueue' = s.rafQueue
  /\ strayRecorders' = s.strayRecorders /\ runs' = s.runs /\ nRuns' = s.nRuns
  /\ gOp' = s.gOp /\ gRun' = s.gRun /\ gEou' = s.gEou /\ gRestarts' = s.gRestarts
  /\ gObs' = s.gObs /\ gFrames' = s.gFrames /\ gStopped' = s.gStopped
  /\ gEcEnded' = s.gEcEnded
  /\ UNCHANGED <<continuousVoiceMode, mediaDevices, now, perfNow, bargeInEnabled,
                 ws, detail, call>>

\* The state a handler starts from: the observation fields describe this step.
Begin(op, r) == [Cur EXCEPT !.gOp = op, !.gRun = r, !.gEou = FALSE,
                            !.gRestarts = 0, !.gObs = NoObs]

\* ------------------------------------------------------------ chat store
\* Variant: the new message is put first.
addMessage_Prepends(msgs, m) == <<m>> \o msgs

\* useChat.addMessage: messages = [...messages, m]
addMessage(msgs, m) == Append(msgs, m)

\* ------------------------------------------------------------ hook internals
Stages == {"transcribe", "chat", "tts"}

\* A call of startListening ends the session every earlier invocation belongs to.
MarkStart(s) ==
  [s EXCEPT !.runs = [r \in Runs |-> [s.runs[r] EXCEPT !.current = FALSE]]]

\* A stop request reaches every invocation that has a stage call in flight.
MarkStop(s) ==
  [s EXCEPT !.runs = [r \in Runs |->
      IF s.runs[r].pc \in Stages THEN [s.runs[r] EXCEPT !.stopReq = TRUE]
      ELSE s.runs[r]]]

\* HTMLAudioElement.pause() on the element of invocation r
PauseAudio(s, r) ==
  IF s.runs[r].audio \in {"loading", "playing"}
  THEN [s EXCEPT !.runs[r].audio = "paused"] ELSE s

\* cancelAnimationFrame(animationRef.current); animationRef.current = null
\* animationRef is "live" when the id it holds is a callback still pending,
\* "stale" when that callback has already run.
CancelAnimation(s) ==
  IF s.animationRef = "null" THEN s
  ELSE [s EXCEPT !.rafQueue = IF s.animationRef = "live" THEN @ - 1 ELSE @,
                 !.animationRef = "null"]

\* stream.getTracks().forEach(t => t.stop()); streamRef.current = null
\* Recorders on a stream whose tracks have all ended become inactive.
StopTracks(s) ==
  [s EXCEPT !.streamRef = "null", !.strayRecorders = 0,
            !.recorderRef = IF @ = "recording" THEN "inactive" ELSE @]

\* restartRecording, called at time t
restartRecording(s, t) ==
  IF s.streamRef = "null" THEN s
  ELSE [s EXCEPT
          !.strayRecorders = IF s.recorderRef = "recording" THEN @ + 1 ELSE @,
          !.chunksRef = 0,
          !.recordingStartRef = t,
          !.silenceStartRef = NULL,
          !.hasSpokenRef = FALSE,
          !.recorderRef = "recording",
          !.rafQueue = @ + 1,
          !.animationRef = "live",
          !.gRestarts = @ + 1,
          !.gFrames = NoFrames]

\* doRestart of stopRecordingAndSend (continuous is the captured setting)
doRestart(s, t) ==
  IF continuousVoiceMode /\ s.streamRef # "null" /\ ~s.userRequestedStopRef
  THEN restartRecording(s, t) ELSE s

\* stopRecordingAndSend, branch taken when userRequestedStopRef is set
userStopped(s) ==
  LET s1 == IF s.currentTTSRef # 0
            THEN [PauseAudio(s, s.currentTTSRef) EXCEPT !.currentTTSRef = 0]
            ELSE s
      s2 == IF s1.recorderRef = "recording"
            THEN [s1 EXCEPT !.recorderRef = "inactive"] ELSE s1
      s3 == IF s2.streamRef # "null" THEN StopTracks(s2) ELSE s2
      s4 == CancelAnimation([s3 EXCEPT !.isListening = FALSE])
  IN [s4 EXCEPT !.silenceStartRef = NULL, !.hasSpokenRef = FALSE, !.chunksRef = 0]

\* recordingStartRef.current ? Date.now() - recordingStartRef.current : 0
Elapsed(s, t) ==
  IF s.recordingStartRef # NULL /\ s.recordingStartRef # 0
  THEN t - s.recordingStartRef ELSE 0

\* Variant: recording is restarted as soon as the segment is sent, before the
\* stage calls have completed.
stopRecordingAndSend_RestartsAtOnce(s, t) ==
  IF s.userRequestedStopRef THEN userStopped(s)
  ELSE IF s.recorderRef # "recording" THEN s
  ELSE
    LET s1 == [s EXCEPT !.recorderRef = "inactive"]
        s2 == IF ~continuousVoiceMode /\ s1.streamRef # "null"
              THEN StopTracks(s1) ELSE s1
        s3 == IF ~continuousVoiceMode THEN [s2 EXCEPT !.isListening = FALSE] ELSE s2
        s4 == CancelAnimation(s3)
        s5 == [s4 EXCEPT !.silenceStartRef = NULL, !.hasSpokenRef = FALSE,
                         !.chunksRef = 0]
        r  == s.nRuns + 1
    IN IF s.chunksRef = 0 THEN doRestart(s5, t)
       ELSE IF Elapsed(s, t) < MIN_RECORDING_MS THEN doRestart(s5, t)
       ELSE IF r > MaxTurns THEN [s5 EXCEPT !.nRuns = r]
       ELSE doRestart([s5 EXCEPT !.isProcessing = TRUE, !.error = FALSE,
                                 !.nRuns = r,
                                 !.runs[r] = [IdleRun EXCEPT !.pc = "transcribe",
                                                   !.t0 = perfNow]],
                      t)

\* Variant: a segment without chunks is sent to transcription like any other.
stopRecordingAndSend_SendsEmpty(s, t) ==
  IF s.userRequestedStopRef THEN userStopped(s)
  ELSE IF s.recorderRef # "recording" THEN s
  ELSE
    LET s1 == [s EXCEPT !.recorderRef = "inactive"]
        s2 == IF ~continuousVoiceMode /\ s1.streamRef # "null"
              THEN StopTracks(s1) ELSE s1
        s3 == IF ~continuousVoiceMode THEN [s2 EXCEPT !.isListening = FALSE] ELSE s2
        s4 == CancelAnimation(s3)
        s5 == [s4 EXCEPT !.silenceStartRef = NULL, !.hasSpokenRef = FALSE,
                         !.chunksRef = 0]
        r  == s.nRuns + 1
    IN IF Elapsed(s, t) < MIN_RECORDING_MS THEN doRestart(s5, t)
       ELSE IF r > MaxTurns THEN [s5 EXCEPT !.nRuns = r]
       ELSE [s5 EXCEPT !.isProcessing = TRUE, !.error = FALSE,
                       !.nRuns = r,
                       !.runs[r] = [IdleRun EXCEPT !.pc = "transcribe",
                                                   !.t0 = perfNow]]

\* stopRecordingAndSend from its entry to its first await (or its return)
stopRecordingAndSend(s, t) ==
  IF s.userRequestedStopRef THEN userStopped(s)
  ELSE IF s.recorderRef # "recording" THEN s
  ELSE
    LET s1 == [s EXCEPT !.recorderRef = "inactive"]
        s2 == IF ~continuousVoiceMode /\ s1.streamRef # "null"
              THEN StopTracks(s1) ELSE s1
        s3 == IF ~continuousVoiceMode THEN [s2 EXCEPT !.isListening = FALSE] ELSE s2
        s4 == CancelAnimation(s3)
        s5 == [s4 EXCEPT !.silenceStartRef = NULL, !.hasSpokenRef = FALSE,
                         !.chunksRef = 0]
        r  == s.nRuns + 1
    IN IF s.chunksRef = 0 THEN doRestart(s5, t)
       ELSE IF Elapsed(s, t) < MIN_RECORDING_MS THEN doRestart(s5, t)
       \* past MaxTurns the invocation is only counted; CheckVolume excludes it
       ELSE IF r > MaxTurns THEN [s5 EXCEPT !.nRuns = r]
       ELSE [s5 EXCEPT !.isProcessing = TRUE, !.error = FALSE,
                       !.nRuns = r,
                       !.runs[r] = [IdleRun EXCEPT !.pc = "transcribe",
                                                   !.t0 = perfNow]]

\* Variant: the finally block leaves isProcessing as it is.
Finally_KeepsProcessing(s, r, t) ==
  LET s1 == [s EXCEPT !.runs[r].pc = "returned"]
  IN IF continuousVoiceMode /\ s1.currentTTSRef = 0 /\ ~s1.runs[r].endConversation
     THEN doRestart(s1, t) ELSE s1

\* the finally block of stopRecordingAndSend, invocation r
Finally(s, r, t) ==
  LET s1 == [s EXCEPT !.isProcessing = FALSE, !.runs[r].pc = "returned"]
  IN IF continuousVoiceMode /\ s1.currentTTSRef = 0 /\ ~s1.runs[r].endConversation
     THEN doRestart(s1, t) ELSE s1

\* Variant: the catch block also appends an assistant message carrying the error.
Catch_AppendsErrorMessage(s, r, t) ==
  Finally([s EXCEPT !.error = TRUE, !.runs[r].errs = @ + 1,
                    !.messages = Append(@, [role |-> "assistant",
                                            content |-> <<"e">>, run |-> r,
                                            latency |-> [stt_ms |-> 0, llm_ms |-> 0,
                                                         tts_ms |-> 0]])],
          r, t)

\* the catch block followed by finally
Catch(s, r, t) ==
  Finally([s EXCEPT !.error = TRUE, !.runs[r].errs = @ + 1], r, t)

\* ------------------------------------------------------------ VAD poll
Schedule(s) == [s EXCEPT !.rafQueue = @ + 1, !.animationRef = "live"]

\* Frames of the current recording, after a frame with this rms polled at t.
Observe(f, s, rms, t) ==
  LET silent == rms < SILENCE_RMS_THRESHOLD
      late   == t - s.recordingStartRef >= MIN_RECORDING_MS
  IN [spoken    |-> f.spoken \/ rms > SPEECH_RMS_THRESHOLD,
      runStart  |-> IF ~silent THEN NULL
                    ELSE IF f.runStart = NULL THEN t ELSE f.runStart,
      qualStart |-> IF ~(silent /\ late) THEN NULL
                    ELSE IF f.qualStart = NULL THEN t ELSE f.qualStart]

Span(start, t) == IF start = NULL THEN NULL ELSE t - start

\* where a frame lies relative to the two thresholds
Frame(rms) ==
  IF rms < SILENCE_RMS_THRESHOLD THEN "silent"
  ELSE IF rms > SPEECH_RMS_THRESHOLD THEN "speech" ELSE "band"

\* Variant: silence is accepted before the minimum recording duration.
checkVolume_NoMinDuration(s, rms, t) ==
  IF ~s.analyserRef THEN s
  ELSE
    LET s2 == IF rms > SPEECH_RMS_THRESHOLD
              THEN [s EXCEPT !.hasSpokenRef = TRUE] ELSE s
        canSend == s2.hasSpokenRef
    IN IF canSend /\ rms < SILENCE_RMS_THRESHOLD
       THEN IF s2.silenceStartRef = NULL
            THEN Schedule([s2 EXCEPT !.silenceStartRef = t])
            ELSE IF t - s2.silenceStartRef >= SILENCE_MS
                 THEN stopRecordingAndSend([s2 EXCEPT !.gEou = TRUE], t)
                 ELSE Schedule(s2)
       ELSE Schedule([s2 EXCEPT !.silenceStartRef = NULL])

\* Variant: silence is accepted although no frame exceeded the speech threshold.
checkVolume_NoSpeechGate(s, rms, t) ==
  IF ~s.analyserRef THEN s
  ELSE
    LET s2 == IF rms > SPEECH_RMS_THRESHOLD
              THEN [s EXCEPT !.hasSpokenRef = TRUE] ELSE s
        canSend == Elapsed(s2, t) >= MIN_RECORDING_MS
    IN IF canSend /\ rms < SILENCE_RMS_THRESHOLD
       THEN IF s2.silenceStartRef = NULL
            THEN Schedule([s2 EXCEPT !.silenceStartRef = t])
            ELSE IF t - s2.silenceStartRef >= SILENCE_MS
                 THEN stopRecordingAndSend([s2 EXCEPT !.gEou = TRUE], t)
                 ELSE Schedule(s2)
       ELSE Schedule([s2 EXCEPT !.silenceStartRef = NULL])

\* Variant: the silence must have lasted longer than SILENCE_MS, not just as long.
checkVolume_StrictSilence(s, rms, t) ==
  IF ~s.analyserRef THEN s
  ELSE
    LET s2 == IF rms > SPEECH_RMS_THRESHOLD
              THEN [s EXCEPT !.hasSpokenRef = TRUE] ELSE s
        canSend == s2.hasSpokenRef /\ Elapsed(s2, t) >= MIN_RECORDING_MS
    IN IF canSend /\ rms < SILENCE_RMS_THRESHOLD
       THEN IF s2.silenceStartRef = NULL
            THEN Schedule([s2 EXCEPT !.silenceStartRef = t])
            ELSE IF t - s2.silenceStartRef > SILENCE_MS
                 THEN stopRecordingAndSend([s2 EXCEPT !.gEou = TRUE], t)
                 ELSE Schedule(s2)
       ELSE Schedule([s2 EXCEPT !.silenceStartRef = NULL])

\* Variant: hasSpokenRef follows the current frame instead of latching.
checkVolume_SpokenFollowsFrame(s, rms, t) ==
  IF ~s.analyserRef THEN s
  ELSE
    LET s2 == [s EXCEPT !.hasSpokenRef = rms > SPEECH_RMS_THRESHOLD]
        canSend == s2.hasSpokenRef /\ Elapsed(s2, t) >= MIN_RECORDING_MS
    IN IF canSend /\ rms < SILENCE_RMS_THRESHOLD
       THEN IF s2.silenceStartRef = NULL
            THEN Schedule([s2 EXCEPT !.silenceStartRef = t])
            ELSE IF t - s2.silenceStartRef >= SILENCE_MS
                 THEN stopRecordingAndSend([s2 EXCEPT !.gEou = TRUE], t)
                 ELSE Schedule(s2)
       ELSE Schedule([s2 EXCEPT !.silenceStartRef = NULL])

\* Variant: only a frame above the speech threshold resets the silence timer.
checkVolume_BandKeepsTimer(s, rms, t) ==
  IF ~s.analyserRef THEN s
  ELSE
    LET s2 == IF rms > SPEECH_RMS_THRESHOLD
              THEN [s EXCEPT !.hasSpokenRef = TRUE] ELSE s
        canSend == s2.hasSpokenRef /\ Elapsed(s2, t) >= MIN_RECORDING_MS
    IN IF canSend /\ rms < SILENCE_RMS_THRESHOLD
       THEN IF s2.silenceStartRef = NULL
            THEN Schedule([s2 EXCEPT !.silenceStartRef = t])
            ELSE IF t - s2.silenceStartRef >= SILENCE_MS
                 THEN stopRecordingAndSend([s2 EXCEPT !.gEou = TRUE], t)
                 ELSE Schedule(s2)
       ELSE IF rms > SPEECH_RMS_THRESHOLD
            THEN Schedule([s2 EXCEPT !.silenceStartRef = NULL])
            ELSE Schedule(s2)

\* checkVolume for one frame with the given rms, polled at time t
checkVolume(s, rms, t) ==
  IF ~s.analyserRef THEN s
  ELSE
    LET tts == s.currentTTSRef
        s1 == IF bargeInEnabled /\ tts # 0 /\ rms > BARGE_IN_RMS_THRESHOLD
              THEN [PauseAudio(s, tts) EXCEPT !.currentTTSRef = 0,
                                              !.gObs.barged = tts]
              ELSE s
        s2 == IF rms > SPEECH_RMS_THRESHOLD
              THEN [s1 EXCEPT !.hasSpokenRef = TRUE] ELSE s1
        recordingDuration == Elapsed(s2, t)
        canSend == s2.hasSpokenRef /\ recordingDuration >= MIN_RECORDING_MS
    IN IF canSend /\ rms < SILENCE_RMS_THRESHOLD
       THEN IF s2.silenceStartRef = NULL
            THEN Schedule([s2 EXCEPT !.silenceStartRef = t])
            ELSE IF t - s2.silenceStartRef >= SILENCE_MS
                 THEN stopRecordingAndSend([s2 EXCEPT !.gEou = TRUE], t)
                 ELSE Schedule(s2)
       ELSE Schedule([s2 EXCEPT !.silenceStartRef = NULL])

\* ------------------------------------------------------------ initial state
InitHook ==
  /\ continuousVoiceMode \in BOOLEAN
  /\ mediaDevices \in BOOLEAN
  /\ now \in Epoch /\ perfNow = 0
  /\ isListening = FALSE /\ isProcessing = FALSE /\ error = FALSE
  /\ streamRef = "null" /\ recorderRef = "null" /\ chunksRef = 0
  /\ analyserRef = FALSE /\ silenceStartRef = NULL /\ hasSpokenRef = FALSE
  /\ animationRef = "null" /\ recordingStartRef = NULL
  /\ userRequestedStopRef = FALSE /\ messagesRef = <<>> /\ currentTTSRef = 0
  /\ messages = <<>>
  /\ gumPending = FALSE /\ rafQueue = 0 /\ strayRecorders = 0
  /\ runs = [r \in Runs |-> IdleRun] /\ nRuns = 0
  /\ gOp = "init" /\ gRun = 0 /\ gEou = FALSE /\ gRestarts = 0
  /\ gObs = NoObs /\ gFrames = NoFrames /\ gStopped = FALSE /\ gEcEnded = FALSE

\* the hook with the other components in their initial state
InitRefs ==
  /\ InitHook
  /\ ws = NewSession("ja-JP", DEFAULT_SAMPLE_RATE)
  /\ detail = NewDetail /\ call = NoCall

\* the hook as built: BARGE_IN_ENABLED is false
Init == InitRefs /\ bargeInEnabled = BARGE_IN_ENABLED

\* ------------------------------------------------------------ user
\* The toggle button is disabled while isProcessing; toggleVoice starts when
\* isListening is false. The button is not pressed again while the
\* getUserMedia request of the previous press is pending.
StartListening ==
  /\ ~isProcessing /\ ~isListening
  /\ ~gumPending /\ rafQueue <= MaxLoops
  /\ LET s0 == MarkStart([Begin("startListening", 0) EXCEPT
                  !.userRequestedStopRef = FALSE, !.error = FALSE,
                  !.gStopped = FALSE, !.gEcEnded = FALSE])
     IN Set(IF ~mediaDevices THEN [s0 EXCEPT !.error = TRUE]
            ELSE [s0 EXCEPT !.gumPending = TRUE])

\* Variant: stopListening does not set userRequestedStopRef.
StopListening_ForgetsFlag ==
  /\ ~isProcessing /\ isListening
  /\ LET s0 == MarkStop([Begin("stopListening", 0) EXCEPT !.gStopped = TRUE])
     IN Set(stopRecordingAndSend(s0, now))

\* toggleVoice stops when isListening is true.
StopListening ==
  /\ ~isProcessing /\ isListening
  /\ LET s0 == MarkStop([Begin("stopListening", 0) EXCEPT
                           !.userRequestedStopRef = TRUE, !.gStopped = TRUE])
     IN Set(stopRecordingAndSend(s0, now))

\* ------------------------------------------------------------ browser
\* getUserMedia resolves: the rest of startListening
GetUserMediaResolve ==
  /\ gumPending
  /\ LET s0 == Begin("getUserMedia", 0)
     IN Set([s0 EXCEPT
               !.gumPending = FALSE,
               !.streamRef = "live",
               !.analyserRef = TRUE,
               !.strayRecorders = IF s0.recorderRef = "recording" THEN @ + 1 ELSE @,
               !.chunksRef = 0,
               !.recorderRef = "recording",
               !.recordingStartRef = now,
               !.silenceStartRef = NULL,
               !.hasSpokenRef = FALSE,
               !.isListening = TRUE,
               !.rafQueue = @ + 1,
               !.gFrames = NoFrames])

\* Variant: a rejected request is issued again.
GetUserMediaReject_Retries ==
  /\ gumPending
  /\ Set([Begin("getUserMediaRejected", 0) EXCEPT !.error = TRUE])

\* getUserMedia rejects: the catch of startListening
GetUserMediaReject ==
  /\ gumPending
  /\ Set([Begin("getUserMediaRejected", 0) EXCEPT
            !.gumPending = FALSE, !.error = TRUE])

\* Date.now() advances.
Tick ==
  /\ \E dt \in TickSteps : now + dt <= MaxNow /\ now' = now + dt
  /\ UNCHANGED <<continuousVoiceMode, mediaDevices, perfNow, bargeInEnabled,
                 ws, detail, call,
                 isListening, isProcessing,
                 error, streamRef, recorderRef, chunksRef, analyserRef,
                 silenceStartRef, hasSpokenRef, animationRef, recordingStartRef,
                 userRequestedStopRef, messagesRef, currentTTSRef, messages,
                 gumPending, rafQueue, strayRecorders, runs, nRuns, gOp, gRun,
                 gEou, gRestarts, gObs, gFrames, gStopped, gEcEnded>>

\* Date.now() advances, in the longer behaviours of SpecEnd.
TickEnd ==
  /\ \E dt \in TickSteps : now + dt <= MaxNowEnd /\ now' = now + dt
  /\ UNCHANGED <<continuousVoiceMode, mediaDevices, perfNow, bargeInEnabled,
                 ws, detail, call,
                 isListening, isProcessing,
                 error, streamRef, recorderRef, chunksRef, analyserRef,
                 silenceStartRef, hasSpokenRef, animationRef, recordingStartRef,
                 userRequestedStopRef, messagesRef, currentTTSRef, messages,
                 gumPending, rafQueue, strayRecorders, runs, nRuns, gOp, gRun,
                 gEou, gRestarts, gObs, gFrames, gStopped, gEcEnded>>

\* Date.now() advances between two polls of a recording, in SpecVad.
TickVad ==
  /\ recorderRef = "recording"
  /\ \E dt \in TickStepsVad : now + dt <= MaxNowVad /\ now' = now + dt
  /\ UNCHANGED <<continuousVoiceMode, mediaDevices, perfNow, bargeInEnabled,
                 ws, detail, call,
                 isListening, isProcessing,
                 error, streamRef, recorderRef, chunksRef, analyserRef,
                 silenceStartRef, hasSpokenRef, animationRef, recordingStartRef,
                 userRequestedStopRef, messagesRef, currentTTSRef, messages,
                 gumPending, rafQueue, strayRecorders, runs, nRuns, gOp, gRun,
                 gEou, gRestarts, gObs, gFrames, gStopped, gEcEnded>>

\* Date.now() advances during a recording, in SpecLat.
TickLat ==
  /\ recorderRef = "recording"
  /\ \E dt \in TickSteps : now + dt <= MaxNow /\ now' = now + dt
  /\ UNCHANGED <<continuousVoiceMode, mediaDevices, perfNow, bargeInEnabled,
                 ws, detail, call,
                 isListening, isProcessing,
                 error, streamRef, recorderRef, chunksRef, analyserRef,
                 silenceStartRef, hasSpokenRef, animationRef, recordingStartRef,
                 userRequestedStopRef, messagesRef, currentTTSRef, messages,
                 gumPending, rafQueue, strayRecorders, runs, nRuns, gOp, gRun,
                 gEou, gRestarts, gObs, gFrames, gStopped, gEcEnded>>

\* performance.now() advances while a stage call is in flight, in SpecLat.
PerfTick ==
  /\ \E r \in Runs : runs[r].pc \in Stages
  /\ \E d \in PerfSteps : perfNow + d <= MaxPerf /\ perfNow' = perfNow + d
  /\ UNCHANGED <<continuousVoiceMode, mediaDevices, now, bargeInEnabled,
                 ws, detail, call,
                 isListening, isProcessing,
                 error, streamRef, recorderRef, chunksRef, analyserRef,
                 silenceStartRef, hasSpokenRef, animationRef, recordingStartRef,
                 userRequestedStopRef, messagesRef, currentTTSRef, messages,
                 gumPending, rafQueue, strayRecorders, runs, nRuns, gOp, gRun,
                 gEou, gRestarts, gObs, gFrames, gStopped, gEcEnded>>

\* recorder.ondataavailable of a recorder that is recording
OnDataAvailable ==
  /\ recorderRef = "recording" \/ strayRecorders > 0
  /\ chunksRef = 0
  /\ \E size \in {0, 1} :
       Set(IF size > 0 THEN [Begin("dataavailable", 0) EXCEPT !.chunksRef = 1]
           ELSE Begin("dataavailable", 0))

\* A pending animation frame runs checkVolume. tracked: the callback is the one
\* whose id animationRef holds.
CheckVolume ==
  /\ rafQueue > 0
  /\ \E tracked \in BOOLEAN, rms \in RmsLevels :
       /\ tracked => animationRef = "live"
       /\ ~tracked => rafQueue > (IF animationRef = "live" THEN 1 ELSE 0)
       /\ LET rec == recorderRef = "recording"
              f   == IF rec THEN Observe(gFrames, Cur, rms, now) ELSE gFrames
              s0  == [Begin("checkVolume", 0) EXCEPT
                        !.rafQueue = @ - 1,
                        !.animationRef = IF tracked THEN "stale" ELSE @,
                        !.gObs = [polled |-> rec, spoken |-> f.spoken,
                                  elapsed |-> IF rec THEN now - recordingStartRef ELSE 0,
                                  runSpan |-> Span(f.runStart, now),
                                  qualSpan |-> Span(f.qualStart, now),
                                  frame |-> Frame(rms),
                                  timing |-> silenceStartRef # NULL,
                                  barged |-> 0],
                        !.gFrames = f]
              s1  == checkVolume(s0, rms, now)
          IN /\ s1.nRuns <= MaxTurns
             /\ Set(s1)

\* ------------------------------------------------------------ collaborators
NoLatency == [stt_ms |-> 0, llm_ms |-> 0, tts_ms |-> 0]
UserMessage(text, r) ==
  [role |-> "user", content |-> text, run |-> r, latency |-> NoLatency]
AssistantMessage(text, r, lat) ==
  [role |-> "assistant", content |-> text, run |-> r, latency |-> lat]

\* Variant: the history is read after the store update has reached messagesRef.
newMessages_AfterSync(ref, m) == Append(Append(ref, m), m)

\* newMessages: messagesRef.current as the handler finds it, then the user
\* message. The effect that copies the store into messagesRef runs after the
\* handler has reached its next await.
newMessages(ref, m) == Append(ref, m)

\* transcribe() resolves with result.text = text
TranscribeDone(r) ==
  /\ runs[r].pc = "transcribe"
  /\ \E text \in Transcripts :
       LET s0 == Begin("transcribeDone", r)
           userText == Trim(text)
       IN IF userText = <<>>
          THEN LET s1 == [s0 EXCEPT !.isProcessing = FALSE]
                   s2 == IF continuousVoiceMode THEN doRestart(s1, now) ELSE s1
               IN Set(Finally(s2, r, now))
          ELSE LET m == addMessage(s0.messages, UserMessage(userText, r))
               IN Set([s0 EXCEPT !.messages = m, !.messagesRef = m,
                                 !.runs[r].sent =
                                    newMessages(s0.messagesRef,
                                                UserMessage(userText, r)),
                                 !.runs[r].stt_ms = Latency(s0.runs[r].t0, perfNow),
                                 !.runs[r].t0 = perfNow,
                                 !.runs[r].pc = "chat"])

\* chat() resolves with end_conversation = ec
ChatDone(r) ==
  /\ runs[r].pc = "chat"
  /\ \E ec \in BOOLEAN :
       Set([Begin("chatDone", r) EXCEPT
              !.runs[r].endConversation = ec,
              !.runs[r].llm_ms = Latency(runs[r].t0, perfNow),
              !.runs[r].t0 = perfNow,
              !.runs[r].pc = "tts"])

\* textToSpeech() resolves: the assistant message, the Audio element, play()
TtsDone(r) ==
  /\ runs[r].pc = "tts"
  /\ LET s0 == Begin("ttsDone", r)
         lat == [stt_ms |-> s0.runs[r].stt_ms, llm_ms |-> s0.runs[r].llm_ms,
                 tts_ms |-> Latency(s0.runs[r].t0, perfNow)]
         m  == addMessage(s0.messages, AssistantMessage(ReplyText, r, lat))
         s1 == [s0 EXCEPT !.messages = m, !.messagesRef = m,
                          !.currentTTSRef = r, !.runs[r].audio = "loading"]
     IN IF s1.runs[r].endConversation THEN Set([s1 EXCEPT !.runs[r].pc = "play"])
        ELSE IF continuousVoiceMode THEN Set(Finally(s1, r, now))
        ELSE Set([s1 EXCEPT !.runs[r].pc = "play"])

\* Variant: a rejected transcription is followed by the reply call all the same.
TranscribeFail_GoesOn(r) ==
  /\ runs[r].pc = "transcribe"
  /\ Set([Begin("transcribeFail", r) EXCEPT !.error = TRUE,
            !.runs[r].errs = @ + 1, !.runs[r].pc = "chat"])

\* a stage call rejects
TranscribeFail(r) ==
  /\ runs[r].pc = "transcribe"
  /\ Set(Catch(Begin("transcribeFail", r), r, now))

ChatFail(r) ==
  /\ runs[r].pc = "chat"
  /\ Set(Catch(Begin("chatFail", r), r, now))

TtsFail(r) ==
  /\ runs[r].pc = "tts"
  /\ Set(Catch(Begin("ttsFail", r), r, now))

\* ------------------------------------------------------------ playback
\* Playback begins; the promise of audio.play() resolves.
AudioStarted(r) ==
  /\ runs[r].audio = "loading"
  /\ LET s0 == [Begin("audioStarted", r) EXCEPT !.runs[r].audio = "playing"]
     IN IF s0.runs[r].pc # "play" THEN Set(s0)
        ELSE IF s0.runs[r].endConversation THEN Set(Finally(s0, r, now))
        ELSE Set(Finally(doRestart(s0, now), r, now))

\* The promise of audio.play() rejects: the element could not start, or it
\* was paused before playback began.
AudioPlayRejected(r) ==
  /\ runs[r].audio \in {"loading", "paused"}
  /\ runs[r].audio = "paused" => runs[r].pc = "play"
  /\ LET s0 == [Begin("audioPlayRejected", r) EXCEPT
                  !.runs[r].audio = IF @ = "loading" THEN "failed" ELSE @]
     IN IF s0.runs[r].pc = "play" THEN Set(Catch(s0, r, now)) ELSE Set(s0)

\* audio.onended
AudioEnded(r) ==
  /\ runs[r].audio = "playing"
  /\ LET s0 == [Begin("audioEnded", r) EXCEPT !.runs[r].audio = "ended"]
         s1 == IF s0.currentTTSRef = r THEN [s0 EXCEPT !.currentTTSRef = 0] ELSE s0
     IN IF s1.runs[r].endConversation
        THEN Set([s1 EXCEPT !.runs[r].endSession = "pending",
                                !.gEcEnded = @ \/ s1.runs[r].current])
        ELSE IF continuousVoiceMode
        THEN Set(IF s1.recorderRef # "recording" THEN doRestart(s1, now) ELSE s1)
        ELSE Set(s1)

\* endVoiceSession() resolves: the then callback of audio.onended
EndVoiceSessionDone(r) ==
  /\ runs[r].endSession = "pending"
  /\ LET s0 == MarkStop([Begin("endVoiceSessionDone", r) EXCEPT
                           !.runs[r].endSession = "done",
                           !.userRequestedStopRef = TRUE])
     IN Set(stopRecordingAndSend(s0, now))

\* endVoiceSession() rejects: no handler is attached
EndVoiceSessionFail(r) ==
  /\ runs[r].endSession = "pending"
  /\ Set([Begin("endVoiceSessionFail", r) EXCEPT !.runs[r].endSession = "failed"])

\* ------------------------------------------------------------ specification
Next ==
  \/ StartListening
  \/ StopListening
  \/ GetUserMediaResolve
  \/ GetUserMediaReject
  \/ Tick
  \/ OnDataAvailable
  \/ CheckVolume
  \/ \E r \in Runs : TranscribeDone(r)
  \/ \E r \in Runs : TranscribeFail(r)
  \/ \E r \in Runs : ChatDone(r)
  \/ \E r \in Runs : ChatFail(r)
  \/ \E r \in Runs : TtsDone(r)
  \/ \E r \in Runs : TtsFail(r)
  \/ \E r \in Runs : AudioStarted(r)
  \/ \E r \in Runs : AudioPlayRejected(r)
  \/ \E r \in Runs : AudioEnded(r)
  \/ \E r \in Runs : EndVoiceSessionDone(r)
  \/ \E r \in Runs : EndVoiceSessionFail(r)

Spec == Init /\ [][Next]_vars

\* Continuous mode with a microphone and collaborators that do not fail, followed
\* for three turns.
InitEnd == Init /\ continuousVoiceMode /\ mediaDevices

NextEnd ==
  \/ StartListening
  \/ StopListening
  \/ GetUserMediaResolve
  \/ TickEnd
  \/ OnDataAvailable
  \/ CheckVolume
  \/ \E r \in Runs : TranscribeDone(r)
  \/ \E r \in Runs : ChatDone(r)
  \/ \E r \in Runs : TtsDone(r)
  \/ \E r \in Runs : AudioStarted(r)
  \/ \E r \in Runs : AudioEnded(r)
  \/ \E r \in Runs : EndVoiceSessionDone(r)

SpecEnd == InitEnd /\ [][NextEnd]_vars

\* The capture side alone: the recorder and the VAD poll on a finer clock, the
\* stage calls of a dispatched segment never returning.
InitVad == Init /\ mediaDevices

NextVad ==
  \/ StartListening
  \/ GetUserMediaResolve
  \/ TickVad
  \/ OnDataAvailable
  \/ CheckVolume

SpecVad == InitVad /\ [][NextVad]_vars

\* Turns whose stage calls all resolve, in either mode, the stage calls taking
\* time on the performance clock.
InitLat == Init /\ mediaDevices

NextLat ==
  \/ StartListening
  \/ GetUserMediaResolve
  \/ TickLat
  \/ PerfTick
  \/ OnDataAvailable
  \/ CheckVolume
  \/ \E r \in Runs : TranscribeDone(r)
  \/ \E r \in Runs : ChatDone(r)
  \/ \E r \in Runs : TtsDone(r)
  \/ \E r \in Runs : AudioStarted(r)
  \/ \E r \in Runs : AudioEnded(r)
  \/ \E r \in Runs : EndVoiceSessionDone(r)

SpecLat == InitLat /\ [][NextLat]_vars

\* The hook built with BARGE_IN_ENABLED set to true, turns without failing
\* stage calls.
InitBarge == InitRefs /\ mediaDevices /\ bargeInEnabled = TRUE

NextBarge ==
  \/ StartListening
  \/ StopListening
  \/ GetUserMediaResolve
  \/ Tick
  \/ OnDataAvailable
  \/ CheckVolume
  \/ \E r \in Runs : TranscribeDone(r)
  \/ \E r \in Runs : ChatDone(r)
  \/ \E r \in Runs : TtsDone(r)
  \/ \E r \in Runs : AudioStarted(r)
  \/ \E r \in Runs : AudioPlayRejected(r)
  \/ \E r \in Runs : AudioEnded(r)
  \/ \E r \in Runs : EndVoiceSessionDone(r)

SpecBarge == InitBarge /\ [][NextBarge]_vars

\* ------------------------------------------------------------ streaming transcription
\* Array.prototype.join(' ') of text fragments
RECURSIVE Join(_)
Join(parts) ==
  IF parts = <<>> THEN <<>>
  ELSE IF Len(parts) = 1 THEN parts[1]
  ELSE parts[1] \o <<" ">> \o Join(Tail(parts))

\* Variant: every call of resolveEnd sets the value.
resolveEnd_Unguarded(w, v, by) ==
  [w EXCEPT !.resolved = TRUE, !.result = v, !.how = by]

\* resolveEnd: the first call resolves the end promise, later calls do nothing
resolveEnd(w, v, by) ==
  IF w.resolved THEN w
  ELSE [w EXCEPT !.resolved = TRUE, !.result = v, !.how = by]

\* ws.onopen
onopen(w) ==
  [w EXCEPT !.sent = Append(@, [kind |-> "config",
                                language_code |-> w.languageCode,
                                sample_rate |-> w.sampleRate])]

\* Variant: empty fragments are kept like the others.
onmessage_KeepsEmpty(w, msg) ==
  IF msg.type = "other" THEN w
  ELSE
    LET w1 == IF msg.type = "final"
              THEN [w EXCEPT !.finalParts = Append(@, msg.text),
                             !.received = Append(@, msg.text)]
              ELSE w
        w2 == IF msg.type = "done"
              THEN resolveEnd(w1, Trim(Join(w1.finalParts)), "done") ELSE w1
    IN IF msg.type = "error" THEN resolveEnd(w2, <<>>, "error") ELSE w2

\* Variant: a server error resolves with the fragments, like done.
onmessage_ErrorKeepsFragments(w, msg) ==
  IF msg.type = "other" THEN w
  ELSE
    LET w0 == IF msg.type = "final"
              THEN [w EXCEPT !.received = Append(@, msg.text)] ELSE w
        w1 == IF msg.type = "final" /\ msg.text # <<>>
              THEN [w0 EXCEPT !.finalParts = Append(@, msg.text)] ELSE w0
    IN IF msg.type \in {"done", "error"}
       THEN resolveEnd(w1, Trim(Join(w1.finalParts)), msg.type) ELSE w1

\* ws.onmessage; a message of type "other" stands for data that is not a string
\* or not JSON, and for JSON of any other type
onmessage(w, msg) ==
  IF msg.type = "other" THEN w
  ELSE
    LET w0 == IF msg.type = "final"
              THEN [w EXCEPT !.received = Append(@, msg.text)] ELSE w
        w1 == IF msg.type = "final" /\ msg.text # <<>>
              THEN [w0 EXCEPT !.finalParts = Append(@, msg.text)] ELSE w0
        w2 == IF msg.type = "done"
              THEN resolveEnd(w1, Trim(Join(w1.finalParts)), "done") ELSE w1
    IN IF msg.type = "error" THEN resolveEnd(w2, <<>>, "error") ELSE w2

\* ws.onerror
onerror(w) == resolveEnd(w, <<>>, "onerror")

\* ws.onclose
onclose(w) ==
  IF ~w.resolved THEN resolveEnd(w, Trim(Join(w.finalParts)), "onclose") ELSE w

\* Variant: the chunk is handed to the socket whatever its state.
sendChunk_Unguarded(w) ==
  [w EXCEPT !.chunks = @ + 1,
            !.sent = Append(@, [kind |-> "pcm", seq |-> w.chunks + 1])]

\* session.sendChunk
sendChunk(w) ==
  LET w1 == [w EXCEPT !.chunks = @ + 1]
  IN IF w.readyState = "OPEN"
     THEN [w1 EXCEPT !.sent = Append(@, [kind |-> "pcm", seq |-> w1.chunks])]
     ELSE w1

\* session.end, up to the return of the end promise
end(w) ==
  LET w1 == [w EXCEPT !.endCalled = TRUE, !.endAt = w.chunks]
  IN IF w.readyState = "OPEN"
     THEN [w1 EXCEPT !.sent = Append(@, [kind |-> "end"])] ELSE w1

\* the messages a server can send
ServerMessages ==
  {[type |-> "final", text |-> t] : t \in FragmentTexts}
    \cup {[type |-> "done"], [type |-> "error"], [type |-> "other"]}

CountKind(w, k) == Cardinality({i \in 1..Len(w.sent) : w.sent[i].kind = k})

\* the connection is established: the open event
WsOpen ==
  /\ ws.readyState = "CONNECTING"
  /\ ws' = onopen([ws EXCEPT !.readyState = "OPEN"])
  /\ UNCHANGED <<hookVars, detail, call>>

\* the caller hands over a captured chunk
SendChunk ==
  /\ ws.chunks < MaxChunks
  /\ ws' = sendChunk(ws)
  /\ UNCHANGED <<hookVars, detail, call>>

\* the caller ends the utterance
End ==
  /\ ~ws.endCalled
  /\ ws' = end(ws)
  /\ UNCHANGED <<hookVars, detail, call>>

\* a message of the server arrives
WsMessage ==
  /\ ws.readyState = "OPEN"
  /\ \E msg \in ServerMessages :
       /\ msg.type = "final" => Len(ws.received) < MaxFragments
       /\ ws' = onmessage(ws, msg)
  /\ UNCHANGED <<hookVars, detail, call>>

\* the connection is closed without a transport error: the close event
WsClose ==
  /\ ws.readyState \in {"CONNECTING", "OPEN"}
  /\ ws' = onclose([ws EXCEPT !.readyState = "CLOSED"])
  /\ UNCHANGED <<hookVars, detail, call>>

\* the connection fails: the error event, then the close event
WsError ==
  /\ ws.readyState \in {"CONNECTING", "OPEN"}
  /\ ws' = onclose(onerror([ws EXCEPT !.readyState = "CLOSED"]))
  /\ UNCHANGED <<hookVars, detail, call>>

InitStream ==
  /\ InitHook /\ continuousVoiceMode /\ mediaDevices
  /\ bargeInEnabled = BARGE_IN_ENABLED
  /\ \E l \in Languages, r \in SampleRates : ws = NewSession(l, r)
  /\ detail = NewDetail /\ call = NoCall

NextStream ==
  \/ WsOpen
  \/ SendChunk
  \/ End
  \/ WsMessage
  \/ WsClose
  \/ WsError

SpecStream == InitStream /\ [][NextStream]_vars

\* the connection attempt of new WebSocket(url) ends: it opens or it fails
ConnectionSettles ==
  /\ ws.readyState = "CONNECTING"
  /\ WsOpen \/ WsClose \/ WsError

\* the server answers an end message it has received: done, error, or it
\* closes the connection
ServerAnswers ==
  /\ ws.readyState = "OPEN" /\ CountKind(ws, "end") >= 1 /\ ~ws.resolved
  /\ \/ /\ \E msg \in {[type |-> "done"], [type |-> "error"]} :
             ws' = onmessage(ws, msg)
        /\ UNCHANGED <<hookVars, detail, call>>
     \/ WsClose
     \/ WsError

\* the streaming session with a connection attempt that ends and a server that
\* answers every end message
SpecStreamFair ==
  SpecStream /\ WF_vars(ConnectionSettles) /\ WF_vars(ServerAnswers)

\* ------------------------------------------------------------ call detail
\* Texts are numbered: k is the text of the k-th turn of the call, 0 the empty
\* string. The latencies of turn k are told apart by their last digit.
SttMs(k) == 10 * k + 1
LlmMs(k) == 10 * k + 2
TtsMs(k) == 10 * k + 3

\* the turn the server records for the k-th turn of the call
SrvTurn(k) ==
  [user_text |-> k, assistant_text |-> k, stt_ms |-> SttMs(k),
   llm_ms |-> LlmMs(k), tts_ms |-> TtsMs(k)]

\* the stage events of turn k
SttDone(k) == [event |-> "stt_done", k |-> k,
               payload |-> [user_text |-> k, stt_ms |-> SttMs(k)]]
LlmDone(k) == [event |-> "llm_done", k |-> k,
               payload |-> [assistant_text |-> k, llm_ms |-> LlmMs(k)]]
TtsStart(k) == [event |-> "tts_start", k |-> k, payload |-> [x \in {} |-> 0]]
TtsDoneEv(k) == [event |-> "tts_done", k |-> k, payload |-> [tts_ms |-> TtsMs(k)]]

\* a ?? b
Coalesce(a, b) == IF a = NULL THEN b ELSE a

\* payload.f, undefined when the payload has no such field
Field(payload, f) == IF f \in DOMAIN payload THEN payload[f] ELSE NULL

\* {...prev}: the fields of prev, none when prev is null
Spread(prev) ==
  IF prev = <<>>
  THEN [user_text |-> NULL, assistant_text |-> NULL, stt_ms |-> NULL,
        llm_ms |-> NULL, tts_ms |-> NULL]
  ELSE prev[1]

\* Variant: llm_done starts the partial turn afresh.
handleLiveMessage_LlmReplaces(d, ev) ==
  LET prev == d.currentTurn
  IN CASE ev.event = "stt_done" ->
            [d EXCEPT !.currentTurn =
               <<[Spread(prev) EXCEPT
                    !.user_text = Coalesce(Field(ev.payload, "user_text"), 0),
                    !.stt_ms = Coalesce(Field(ev.payload, "stt_ms"), 0)]>>]
       [] ev.event = "llm_done" ->
            [d EXCEPT !.currentTurn =
               <<[Spread(<<>>) EXCEPT
                    !.assistant_text =
                       Coalesce(Field(ev.payload, "assistant_text"), 0),
                    !.llm_ms = Coalesce(Field(ev.payload, "llm_ms"), 0)]>>]
       [] ev.event = "tts_start" ->
            [d EXCEPT !.currentTurn = IF prev # <<>> THEN prev ELSE <<Spread(<<>>)>>]
       [] ev.event = "tts_done" ->
            IF prev = <<>> THEN d
            ELSE [d EXCEPT
                    !.currentTurn = <<>>,
                    !.turns = Append(@,
                       [user_text |-> Coalesce(prev[1].user_text, 0),
                        assistant_text |-> Coalesce(prev[1].assistant_text, 0),
                        stt_ms |-> Coalesce(prev[1].stt_ms, 0),
                        llm_ms |-> Coalesce(prev[1].llm_ms, 0),
                        tts_ms |-> Coalesce(Field(ev.payload, "tts_ms"), 0)])]
       [] OTHER -> d

\* handleLiveMessage with the state updates it queues applied
handleLiveMessage(d, ev) ==
  LET prev == d.currentTurn
  IN CASE ev.event = "stt_done" ->
            [d EXCEPT !.currentTurn =
               <<[Spread(prev) EXCEPT
                    !.user_text = Coalesce(Field(ev.payload, "user_text"), 0),
                    !.stt_ms = Coalesce(Field(ev.payload, "stt_ms"), 0)]>>]
       [] ev.event = "llm_done" ->
            [d EXCEPT !.currentTurn =
               <<[Spread(prev) EXCEPT
                    !.assistant_text =
                       Coalesce(Field(ev.payload, "assistant_text"), 0),
                    !.llm_ms = Coalesce(Field(ev.payload, "llm_ms"), 0)]>>]
       [] ev.event = "tts_start" ->
            [d EXCEPT !.currentTurn = IF prev # <<>> THEN prev ELSE <<Spread(<<>>)>>]
       [] ev.event = "tts_done" ->
            IF prev = <<>> THEN d
            ELSE [d EXCEPT
                    !.currentTurn = <<>>,
                    !.turns = Append(@,
                       [user_text |-> Coalesce(prev[1].user_text, 0),
                        assistant_text |-> Coalesce(prev[1].assistant_text, 0),
                        stt_ms |-> Coalesce(prev[1].stt_ms, 0),
                        llm_ms |-> Coalesce(prev[1].llm_ms, 0),
                        tts_ms |-> Coalesce(Field(ev.payload, "tts_ms"), 0)])]
       [] OTHER -> d

\* the server emits a stage event: it is on its way to the page when the page
\* is subscribed
Emit(d, ev) == IF d.live = "open" THEN [d EXCEPT !.queue = Append(@, ev)] ELSE d

\* the socket of useVoiceCallLive opens and subscribes
LiveOpen ==
  /\ detail.live = "connecting"
  /\ detail' = [detail EXCEPT !.live = "open"]
  /\ UNCHANGED <<hookVars, ws, call>>

\* the socket closes; the events on their way are lost
LiveClose ==
  /\ detail.live = "open"
  /\ detail' = [detail EXCEPT !.live = "closed", !.queue = <<>>]
  /\ UNCHANGED <<hookVars, ws, call>>

\* the next event arrives: ws.onmessage calls handleLiveMessage
LiveMessage ==
  /\ detail.queue # <<>>
  /\ LET ev == Head(detail.queue)
         d1 == handleLiveMessage([detail EXCEPT !.queue = Tail(@)], ev)
     IN detail' = [d1 EXCEPT
                     !.seen = IF ev.event = "tts_done" THEN <<>>
                              ELSE Append(detail.seen, <<ev.event, ev.k>>),
                     !.appended = Len(d1.turns) - Len(detail.turns)]
  /\ UNCHANGED <<hookVars, ws, call>>

\* the server reads the call for getVoiceCall
FetchServe ==
  /\ detail.fetch = "pending"
  /\ detail' = [detail EXCEPT !.fetch = "served", !.data = detail.srvTurns]
  /\ UNCHANGED <<hookVars, ws, call>>

\* getVoiceCall resolves: setCall(data), setTurns(data.turns), setLoading(false)
FetchResolve ==
  /\ detail.fetch = "served"
  /\ detail' = [detail EXCEPT !.fetch = "done", !.turns = detail.data]
  /\ UNCHANGED <<hookVars, ws, call>>

\* getVoiceCall rejects: setError, setLoading(false)
FetchReject ==
  /\ detail.fetch \in {"pending", "served"}
  /\ detail' = [detail EXCEPT !.fetch = "failed"]
  /\ UNCHANGED <<hookVars, ws, call>>

\* the call completes a stage of its turn in progress and emits the stage event;
\* completing the synthesis appends the finalized turn
SrvSttDone ==
  /\ detail.srvStage = "idle" /\ detail.srvK <= MaxCallTurns
  /\ detail' = Emit([detail EXCEPT !.srvStage = "stt"], SttDone(detail.srvK))
  /\ UNCHANGED <<hookVars, ws, call>>

SrvLlmDone ==
  /\ detail.srvStage = "stt"
  /\ detail' = Emit([detail EXCEPT !.srvStage = "llm"], LlmDone(detail.srvK))
  /\ UNCHANGED <<hookVars, ws, call>>

SrvTtsStart ==
  /\ detail.srvStage = "llm"
  /\ detail' = Emit([detail EXCEPT !.srvStage = "tts"], TtsStart(detail.srvK))
  /\ UNCHANGED <<hookVars, ws, call>>

SrvTtsDone ==
  /\ detail.srvStage = "tts"
  /\ detail' = Emit([detail EXCEPT !.srvStage = "idle", !.srvK = @ + 1,
                                   !.srvTurns = Append(@, SrvTurn(detail.srvK))],
                    TtsDoneEv(detail.srvK))
  /\ UNCHANGED <<hookVars, ws, call>>

\* a stage of the turn in progress fails: the call aborts the turn, which is
\* not appended, and returns to listening; no stage event is emitted
SrvAbort ==
  /\ detail.srvStage \in {"stt", "llm", "tts"}
  /\ detail' = [detail EXCEPT !.srvStage = "idle", !.srvK = @ + 1]
  /\ UNCHANGED <<hookVars, ws, call>>

\* the page is opened on a call that has finalized any number of turns
InitDetail ==
  /\ InitHook /\ continuousVoiceMode /\ mediaDevices
  /\ bargeInEnabled = BARGE_IN_ENABLED
  /\ ws = NewSession("ja-JP", DEFAULT_SAMPLE_RATE) /\ call = NoCall
  /\ \E n \in 0..(MaxCallTurns - 1) :
       detail = [NewDetail EXCEPT !.srvTurns = [k \in 1..n |-> SrvTurn(k)],
                                  !.srvK = n + 1]

NextDetail ==
  \/ LiveOpen
  \/ LiveClose
  \/ LiveMessage
  \/ FetchServe
  \/ FetchResolve
  \/ FetchReject
  \/ SrvSttDone
  \/ SrvLlmDone
  \/ SrvTtsStart
  \/ SrvTtsDone
  \/ SrvAbort

SpecDetail == InitDetail /\ [][NextDetail]_vars

\* ------------------------------------------------------------ telephony bridge
\* start: the session of the call is created
onStart(c, id, stream) ==
  [c EXCEPT !.state = "active", !.call_id = id, !.stream_id = stream,
            !.stage = "listening", !.recording_start = c.n, !.startId = id]

\* the voice activity detector on one frame of the segment being captured
vadFrame(c, rms) ==
  LET c1 == IF rms > SPEECH_RMS_THRESHOLD THEN [c EXCEPT !.has_spoken = TRUE] ELSE c
      long == c1.n - c1.recording_start >= TEL_MIN_FRAMES
  IN IF ~(c1.has_spoken /\ long) THEN c1
     ELSE IF rms < SILENCE_RMS_THRESHOLD
     THEN IF c1.silence_start = NULL THEN [c1 EXCEPT !.silence_start = c1.n]
          ELSE IF c1.n - c1.silence_start >= TEL_SILENCE_FRAMES
          THEN [c1 EXCEPT !.stage = "transcribing", !.stt = @ + 1,
                          !.has_spoken = FALSE, !.silence_start = NULL]
          ELSE c1
     ELSE [c1 EXCEPT !.silence_start = NULL]

\* media: the frame is decoded and buffered; while listening the detector runs
onMedia(c, rms) ==
  LET c1 == [c EXCEPT !.n = @ + 1, !.frames = Append(@, rms)]
  IN IF c.stage = "listening" THEN vadFrame(c1, rms) ELSE c1

\* Variant: stop sends what is buffered to transcription before finalizing.
onStop_Flushes(c) ==
  [c EXCEPT !.state = "ended", !.ended = @ + 1, !.partial = <<>>,
            !.stage = "terminated",
            !.stt = IF c.n > c.recording_start THEN @ + 1 ELSE @]

\* stop: the session is finalized; end_time is set, the partial turn dropped
onStop(c) ==
  [c EXCEPT !.state = "ended", !.ended = @ + 1, !.partial = <<>>,
            !.stage = "terminated"]

\* the three stages of a turn
onTranscript(c, text) ==
  IF text = "" THEN [c EXCEPT !.stage = "listening", !.recording_start = c.n]
  ELSE [c EXCEPT !.stage = "replying", !.llm = @ + 1,
                 !.partial = <<[user_text |-> text]>>]

onReply(c, text) ==
  [c EXCEPT !.stage = "synthesizing", !.tts = @ + 1,
            !.partial = <<[user_text |-> c.partial[1].user_text,
                           assistant_text |-> text]>>]

onSynthesized(c) ==
  [c EXCEPT !.stage = "playing", !.partial = <<>>,
            !.turns = Append(@, c.partial[1])]

onPlayed(c) == [c EXCEPT !.stage = "listening", !.recording_start = c.n]

CallStart ==
  /\ call.state = "none"
  /\ \E id \in CallIds : call' = onStart(call, id, "MZ1")
  /\ UNCHANGED <<hookVars, ws, detail>>

CallMedia ==
  /\ call.state = "active" /\ call.n < MaxFrames
  /\ \E rms \in FrameLevels : call' = onMedia(call, rms)
  /\ UNCHANGED <<hookVars, ws, detail>>

CallStop ==
  /\ call.state = "active"
  /\ call' = onStop(call)
  /\ UNCHANGED <<hookVars, ws, detail>>

CallTranscript ==
  /\ call.state = "active" /\ call.stage = "transcribing"
  /\ \E text \in {"", "hello"} : call' = onTranscript(call, text)
  /\ UNCHANGED <<hookVars, ws, detail>>

CallReply ==
  /\ call.state = "active" /\ call.stage = "replying"
  /\ call' = onReply(call, "hi")
  /\ UNCHANGED <<hookVars, ws, detail>>

CallSynthesized ==
  /\ call.state = "active" /\ call.stage = "synthesizing"
  /\ call' = onSynthesized(call)
  /\ UNCHANGED <<hookVars, ws, detail>>

CallPlayed ==
  /\ call.state = "active" /\ call.stage = "playing"
  /\ call' = onPlayed(call)
  /\ UNCHANGED <<hookVars, ws, detail>>

InitCall ==
  /\ InitHook /\ continuousVoiceMode /\ mediaDevices
  /\ bargeInEnabled = BARGE_IN_ENABLED
  /\ ws = NewSession("ja-JP", DEFAULT_SAMPLE_RATE) /\ detail = NewDetail
  /\ call = NoCall

NextCall ==
  \/ CallStart
  \/ CallMedia
  \/ CallStop
  \/ CallTranscript
  \/ CallReply
  \/ CallSynthesized
  \/ CallPlayed

SpecCall == InitCall /\ [][NextCall]_vars

\* ------------------------------------------------------------ observations
\* the Audio element of invocation r is sounding (play() called, not paused/ended)
Playing(r) == runs[r].audio \in {"loading", "playing"}
\* some MediaRecorder is in state "recording"
Capturing == recorderRef = "recording" \/ strayRecorders > 0
\* the messages invocation r appended
MsgsOf(r, msgs) == SelectSeq(msgs, LAMBDA m : m.run = r)
FailOps == {"transcribeFail", "chatFail", "ttsFail"}
Terminated == streamRef = "null" /\ ~Capturing /\ rafQueue = 0 /\ ~isListening
\* how far an invocation of stopRecordingAndSend has come
StageRank(pc) ==
  CASE pc = "none" -> 0 [] pc = "transcribe" -> 1 [] pc = "chat" -> 2
    [] pc = "tts" -> 3 [] pc = "play" -> 4 [] pc = "returned" -> 5

\* ------------------------------------------------------------ claims

\* C1 (as stated): at every VAD poll of a recording, end-of-utterance is
\* signalled iff has_spoken holds, the recording has lasted at least
\* MIN_RECORDING_MS and the trailing run of frames below the silence threshold
\* spans at least SILENCE_MS.
C1_EouIffTrailingSilence ==
  gObs.polled =>
    (gEou <=> (gObs.spoken /\ gObs.elapsed >= MIN_RECORDING_MS
               /\ gObs.runSpan >= SILENCE_MS))

\* C1 (amended): at every VAD poll of a recording, end-of-utterance is signalled
\* iff has_spoken holds and the part of the trailing below-silence run that was
\* polled at or after MIN_RECORDING_MS into the recording spans at least
\* SILENCE_MS.
C1_EouIffQualifiedSilence ==
  gObs.polled => (gEou <=> (gObs.spoken /\ gObs.qualSpan >= SILENCE_MS))

\* C1 witness: a poll of a recording that signals end-of-utterance.
C1_Witness == gOp = "checkVolume" /\ gObs.polled /\ gEou /\ gObs.qualSpan >= SILENCE_MS

C3_NoCaptureDuringPlayback ==
  ~BARGE_IN_ENABLED => ~(Capturing /\ \E r \in Runs : runs[r].audio = "playing")

\* C4: from a stop request (stopListening) until the next explicit start, no
\* reply audio is playing, no recorder is recording, the capture stream is
\* released and isListening is false; right after the stop the segment buffer
\* is empty.
C4_StopHaltsSession ==
  gStopped =>
    /\ \A r \in Runs : ~Playing(r)
    /\ ~Capturing /\ streamRef = "null" /\ ~isListening
    /\ gOp = "stopListening" => chunksRef = 0

\* C5: once a stop was requested while a stage call of an invocation was in
\* flight, that invocation appends no message and starts no audio.
C5_ResultDiscardedAfterStop ==
  [][\A r \in Runs : runs[r].stopReq =>
       /\ MsgsOf(r, messages') = MsgsOf(r, messages)
       /\ (Playing(r)' => Playing(r))]_vars

\* C6: after a stage failure exactly one error was surfaced for the turn and,
\* no stop being requested, the pipeline is Listening again in continuous mode
\* (recorder recording, VAD poll scheduled) and Idle in non-continuous mode.
C6_FailureReturnsToListening ==
  gOp \in FailOps =>
    /\ runs[gRun].errs = 1
    /\ (continuousVoiceMode /\ ~userRequestedStopRef /\ streamRef # "null")
         => (recorderRef = "recording" /\ rafQueue > 0)
    /\ ~continuousVoiceMode
         => (~isListening /\ ~isProcessing /\ recorderRef # "recording")

C8_HistoryAppendOnly == [][IsPrefix(messages, messages')]_vars

\* C8 witness: a stage failure with a non-empty history.
C8_Witness == gOp \in FailOps /\ Len(messages) >= 2

\* C9: once the audio of a reply with end_conversation has ended, no step
\* restarts recording, unless the user has started listening again since that
\* reply (checked over the three-turn behaviours of SpecEnd).
C9_NoRestartAfterEndConversation == gEcEnded => gRestarts = 0

\* C9 witness: in continuous mode the audio of an end_conversation reply ended
\* and the end-of-session request completed.
C9_Witness ==
  gEcEnded /\ continuousVoiceMode /\ gOp = "endVoiceSessionDone" /\ ~isListening

\* C10: when the end-of-session request that follows the audio of an
\* end_conversation reply has completed, the session is terminated: stream
\* released, no recorder recording, no VAD poll pending, isListening false.
C10_EndConversationTerminates ==
  gOp \in {"endVoiceSessionDone", "endVoiceSessionFail"} => Terminated

\* C11: when the audio of a reply without end_conversation has ended, the
\* pipeline is Listening in continuous mode (recording restarted by that step,
\* poll scheduled, VAD state and segment buffer reset) and Idle in
\* non-continuous mode (no recorder recording, stream released, isListening
\* false).
C11_PlaybackEndRestartsOrIdles ==
  (gOp = "audioEnded" /\ ~runs[gRun].endConversation) =>
    /\ continuousVoiceMode =>
         (isListening /\ recorderRef = "recording" /\ rafQueue > 0 /\ gRestarts = 1
          /\ ~hasSpokenRef /\ silenceStartRef = NULL /\ chunksRef = 0)
    /\ ~continuousVoiceMode =>
         (~isListening /\ ~Capturing /\ streamRef = "null")

\* transcribe() has just resolved with an empty or whitespace-only text
EmptyTranscript == gOp = "transcribeDone" /\ runs[gRun].pc = "returned"

\* C12: after an empty (or whitespace-only) transcript the turn has appended no
\* message, surfaced no error and created no reply audio, processing is over,
\* and the pipeline is back in Listening: in continuous mode, no stop being
\* requested, recording was restarted once by that step (recorder recording,
\* poll scheduled); in non-continuous mode, where the capture was released
\* when the segment was sent, it is Idle.
C12_EmptyTranscriptResumesListening ==
  EmptyTranscript =>
    /\ MsgsOf(gRun, messages) = <<>> /\ ~error /\ runs[gRun].errs = 0
    /\ runs[gRun].audio = "none" /\ ~isProcessing
    /\ (continuousVoiceMode /\ ~userRequestedStopRef) =>
         (isListening /\ recorderRef = "recording" /\ rafQueue > 0
          /\ gRestarts = 1)
    /\ ~continuousVoiceMode =>
         (~isListening /\ ~Capturing /\ streamRef = "null")

\* C13: at a VAD poll of a recording in which no polled frame, this one
\* included, had an RMS above the speech threshold, end-of-utterance is not
\* signalled, however long the recording and its silence have lasted.
C13_NoSpeechNoEou == (gObs.polled /\ ~gObs.spoken) => ~gEou

\* C13 witness: a poll two seconds into a recording without speech whose frames
\* have been below the silence threshold for at least SILENCE_MS.
C13_Witness ==
  /\ gOp = "checkVolume" /\ gObs.polled /\ ~gObs.spoken /\ ~gEou
  /\ gObs.elapsed >= 2000 /\ gObs.qualSpan >= SILENCE_MS
  /\ recorderRef = "recording" /\ ~isProcessing

\* C14: at a VAD poll of a recording in which speech was polled and whose
\* trailing run of frames below the silence threshold began at least
\* MIN_RECORDING_MS into the recording (as it does after a speech burst of that
\* length) and has lasted SILENCE_MS or longer, end-of-utterance is signalled;
\* and a poll that signals it ends that recording (the recorder is stopped or
\* replaced by a new recording), so that it is signalled once per recording.
C14_BurstThenSilenceOneEou ==
  /\ (gObs.polled /\ gObs.spoken /\ gObs.runSpan >= SILENCE_MS
      /\ gObs.elapsed - gObs.runSpan >= MIN_RECORDING_MS) => gEou
  /\ (gObs.polled /\ gEou) => (recorderRef # "recording" \/ gRestarts > 0)

\* C14 witness: end-of-utterance signalled at the poll 1100 ms into a silence
\* that began 700 ms into a recording with speech; the recording has stopped.
C14_Witness ==
  /\ gOp = "checkVolume" /\ gObs.polled /\ gObs.spoken /\ gEou
  /\ gObs.runSpan = 1100 /\ gObs.elapsed = 1800
  /\ recorderRef = "inactive" /\ isProcessing

\* C15: while a recording is running has_spoken is true exactly if one of its
\* polled frames exceeded the speech threshold, and a step takes has_spoken from
\* true to false only if it ends the utterance: a poll that dispatches
\* end-of-utterance, a stop (by the user, or the one that ends the session after
\* an end_conversation reply), or the start or restart of a recording.
C15_HasSpokenLatches ==
  /\ [](recorderRef = "recording" => (hasSpokenRef <=> gFrames.spoken))
  /\ [][(hasSpokenRef /\ ~hasSpokenRef') =>
          \/ gOp' = "checkVolume" /\ gEou'
          \/ gOp' \in {"stopListening", "endVoiceSessionDone"}
          \/ gOp' = "getUserMedia"
          \/ gRestarts' > 0]_vars

\* C15 witness: has_spoken still true after the poll of a frame below the
\* silence threshold, later in the same recording.
C15_Witness ==
  /\ gOp = "checkVolume" /\ gObs.polled /\ ~gEou /\ recorderRef = "recording"
  /\ hasSpokenRef /\ gObs.runSpan # NULL

\* C16: after a VAD poll of a frame whose RMS is at or above the silence
\* threshold the silence timer is none; and the poll of a frame in the
\* hysteresis band (at or above the silence threshold, not above the speech
\* threshold) leaves has_spoken as it was.
C16_NonSilentFrameClearsTimer ==
  /\ []((gOp = "checkVolume" /\ gObs.frame \in {"band", "speech"})
          => silenceStartRef = NULL)
  /\ [][(gOp' = "checkVolume" /\ gObs'.frame = "band")
          => hasSpokenRef' = hasSpokenRef]_vars

\* C16 witness: a frame in the hysteresis band polled while the silence timer
\* of a recording with speech was running; the recording goes on.
C16_Witness ==
  /\ gOp = "checkVolume" /\ gObs.polled /\ gObs.frame = "band" /\ gObs.timing
  /\ hasSpokenRef /\ silenceStartRef = NULL /\ recorderRef = "recording"

\* C17: in every step and for every turn, the transcription call is started
\* from the not-started state only, the reply call only by the step in which
\* the turn's transcription resolved, the synthesis call only by the step in
\* which its reply call resolved, and playback (the audio element created and
\* play() called) only by the step in which its synthesis call resolved; a turn
\* never goes back to an earlier stage, and its audio element, once created, is
\* not created again.
C17_StagesInOrder ==
  [][\A r \in Runs :
       LET pc == runs[r].pc
           qc == runs'[r].pc
       IN /\ StageRank(qc) >= StageRank(pc)
          /\ (qc = "transcribe" /\ pc # qc) => pc = "none"
          /\ (qc = "chat" /\ pc # qc) =>
               (pc = "transcribe" /\ gOp' = "transcribeDone" /\ gRun' = r)
          /\ (qc = "tts" /\ pc # qc) =>
               (pc = "chat" /\ gOp' = "chatDone" /\ gRun' = r)
          /\ (runs'[r].audio = "loading" /\ runs[r].audio # "loading") =>
               (pc = "tts" /\ runs[r].audio = "none"
                /\ gOp' = "ttsDone" /\ gRun' = r)
          /\ runs[r].audio # "none" => runs'[r].audio # "none"]_vars

\* C17 witness: playback of the second turn's reply has begun, its user message
\* and reply being in the history after those of the first turn.
C17_Witness ==
  /\ gOp = "audioStarted" /\ gRun = 2 /\ runs[2].audio = "playing"
  /\ Len(MsgsOf(2, messages)) = 2 /\ runs[1].audio = "ended"

\* C18: the step that starts the reply call of a turn passes as history the
\* messages appended before that step, in their order, followed by the turn's
\* user message (the trimmed transcript), which it appends to the history as
\* well; the user message occurs in what is passed exactly once.
C18_HistorySentToReply ==
  [][(gOp' = "transcribeDone" /\ runs[gRun'].pc = "transcribe"
      /\ runs'[gRun'].pc = "chat") =>
       LET h == runs'[gRun'].sent
       IN /\ h # <<>>
          /\ SubSeq(h, 1, Len(h) - 1) = messages
          /\ h[Len(h)].role = "user" /\ h[Len(h)].run = gRun'
          /\ h[Len(h)].content # <<>> /\ h[Len(h)].content = Trim(h[Len(h)].content)
          /\ Len(MsgsOf(gRun', h)) = 1
          /\ messages' = h]_vars

\* C18 witness: the reply call of the second turn has been started with the
\* first turn's user message and reply and the new user message.
C18_Witness ==
  /\ gOp = "transcribeDone" /\ gRun = 2 /\ runs[2].pc = "chat"
  /\ Len(runs[2].sent) = 3 /\ runs[2].sent[2].role = "assistant"

\* C19: in a session whose turns are processed one after the other and all
\* succeed, the history is ordered by turn, every reply stands immediately after
\* the user message of its own turn, a turn whose three stage calls have
\* resolved has exactly its user message and its reply in the history, and the
\* three latency fields of every reply are at least 0.
C19_TurnsInOrderWithLatencies ==
  LET n == Len(messages)
  IN /\ \A i, j \in 1..n : i < j => messages[i].run <= messages[j].run
     /\ \A i \in 1..n : messages[i].role = "assistant" =>
          /\ i > 1 /\ messages[i-1].role = "user"
          /\ messages[i-1].run = messages[i].run
          /\ messages[i].latency.stt_ms >= 0
          /\ messages[i].latency.llm_ms >= 0
          /\ messages[i].latency.tts_ms >= 0
     /\ \A r \in Runs : runs[r].audio # "none" =>
          /\ Len(MsgsOf(r, messages)) = 2
          /\ MsgsOf(r, messages)[2].role = "assistant"

\* C19 witness: two turns done, the stage calls of each having taken time.
C19_Witness ==
  /\ Len(messages) = 4 /\ messages[4].role = "assistant" /\ messages[4].run = 2
  /\ messages[2].latency.stt_ms > 0 /\ messages[4].latency.tts_ms > 0
  /\ runs[2].audio = "playing"

\* C20: the step in which startListening finds no getUserMedia, or in which
\* its getUserMedia request is rejected, surfaces an error, leaves isListening
\* false, creates no recorder, stream, analyser or poll, and leaves no request
\* pending.
C20_NoDeviceSurfacesError ==
  [][(\/ gOp' = "getUserMediaRejected"
      \/ gOp' = "startListening" /\ ~mediaDevices) =>
       /\ error' /\ ~isListening /\ ~isListening' /\ ~gumPending'
       /\ recorderRef' = recorderRef /\ strayRecorders' = strayRecorders
       /\ streamRef' = streamRef /\ analyserRef' = analyserRef
       /\ rafQueue' = rafQueue /\ recordingStartRef' = recordingStartRef]_vars

\* C20 witness: the first request for the microphone has been rejected; there
\* is an error, no recorder, no stream and no poll.
C20_Witness ==
  /\ gOp = "getUserMediaRejected" /\ mediaDevices /\ error /\ ~isListening
  /\ recorderRef = "null" /\ streamRef = "null" /\ rafQueue = 0 /\ ~gumPending

\* The step dispatches a segment that has no chunks or is shorter than
\* MIN_RECORDING_MS: the poll signals end-of-utterance on a recorder that is
\* recording, no stop being requested.
UnusableSegment ==
  /\ gOp' = "checkVolume" /\ gEou' /\ gObs'.polled
  /\ recorderRef = "recording" /\ ~userRequestedStopRef
  /\ (chunksRef = 0 \/ Elapsed(Cur, now) < MIN_RECORDING_MS)

\* what holds of every dispatch of an unusable segment: no transcription call is
\* started, processing is not entered and the error is left as it was
UnusableSegmentDropped ==
  /\ nRuns' = nRuns /\ runs' = runs
  /\ isProcessing' = isProcessing /\ error' = error /\ messages' = messages

\* C21 (as stated): a segment without chunks or shorter than MIN_RECORDING_MS
\* is not sent to transcription, no error is surfaced, and the pipeline is
\* back in Listening: recording has been restarted.
C21_UnusableSegmentBackToListening ==
  [][UnusableSegment =>
       /\ UnusableSegmentDropped
       /\ isListening' /\ recorderRef' = "recording" /\ rafQueue' > 0
       /\ gRestarts' = 1]_vars

\* C21 (amended): a segment without chunks or shorter than MIN_RECORDING_MS is
\* not sent to transcription and no error is surfaced; in continuous mode the
\* recording is restarted once by the same step (Listening), in non-continuous
\* mode the capture has been released and the pipeline is Idle.
C21_UnusableSegmentRestartsOrIdles ==
  [][UnusableSegment =>
       /\ UnusableSegmentDropped
       /\ continuousVoiceMode =>
            (isListening' /\ recorderRef' = "recording" /\ rafQueue' > 0
             /\ gRestarts' = 1 /\ chunksRef' = 0 /\ ~hasSpokenRef'
             /\ silenceStartRef' = NULL)
       /\ ~continuousVoiceMode =>
            (~isListening' /\ recorderRef' = "inactive" /\ streamRef' = "null"
             /\ gRestarts' = 0)]_vars

\* C21 witness: in continuous mode the poll has signalled end-of-utterance for
\* a recording without chunks; recording was restarted and nothing was sent.
C21_Witness ==
  /\ gOp = "checkVolume" /\ gEou /\ gObs.polled /\ continuousVoiceMode
  /\ gRestarts = 1 /\ nRuns = 0 /\ recorderRef = "recording" /\ ~isProcessing
  /\ ~error

C23_NoPollAfterTeardown ==
  gOp \in {"stopListening", "endVoiceSessionDone"} => rafQueue = 0

\* the fragments that carry text, in arrival order
NonEmpty(texts) == SelectSeq(texts, LAMBDA t : t # <<>>)

\* C24: the configuration message {language_code, sample_rate} of the session
\* is the first message sent on the connection and the only configuration
\* message: no chunk and no end message precedes it, and once the connection
\* is open it has been sent.
C24_ConfigFirstAndOnce ==
  /\ \A i \in 1..Len(ws.sent) : ws.sent[i].kind = "config" <=> i = 1
  /\ ws.sent # <<>> =>
       ws.sent[1] = [kind |-> "config", language_code |-> ws.languageCode,
                     sample_rate |-> ws.sampleRate]
  /\ ws.readyState = "OPEN" => CountKind(ws, "config") = 1

\* C24 witness: chunks and the end message have been sent after the
\* configuration message.
C24_Witness ==
  /\ Len(ws.sent) >= 3 /\ ws.sent[1].kind = "config"
  /\ CountKind(ws, "pcm") >= 1 /\ CountKind(ws, "end") = 1

\* C25: when a done message resolves the end promise, the transcript is the
\* final fragments received before it that carry text, in arrival order, joined
\* by single spaces and trimmed.
C25_DoneReturnsJoinedFragments ==
  [][(ws.how = "none" /\ ws'.how = "done") =>
       ws'.result = Trim(Join(NonEmpty(ws.received)))]_vars

\* C25 witness: done has resolved a session that received two fragments with
\* text and an empty one between them.
C25_Witness ==
  /\ ws.how = "done" /\ ws.endCalled
  /\ ws.received = <<<<"a">>, <<>>, <<"a">>>>
  /\ ws.result = <<"a", " ", "a">>

\* C26: when the connection drops before the end promise is resolved, by a
\* close or by a transport error, the promise resolves with the fragments
\* received so far, joined by single spaces and trimmed.
C26_DropResolvesWithFragments ==
  [][(~ws.resolved /\ ws.readyState # "CLOSED" /\ ws'.readyState = "CLOSED") =>
       /\ ws'.resolved
       /\ ws'.result = Trim(Join(NonEmpty(ws.received)))]_vars

\* C27: when end() has been called and the connection is open, an end message
\* has been sent on it.
C27_EndMessageReachesConnection ==
  (ws.endCalled /\ ws.readyState = "OPEN") => CountKind(ws, "end") >= 1

\* the entries of the displayed turn list that show the k-th turn of the call
Shown(k) == {i \in 1..Len(detail.turns) : detail.turns[i].tts_ms = TtsMs(k)}

\* C28: whatever the interleaving of the read response and the live events,
\* every finalized turn of the call appears at most once in the displayed turn
\* list.
C28_FinalizedTurnShownOnce ==
  \A k \in 1..MaxCallTurns : Cardinality(Shown(k)) <= 1

\* C29: there is at most one in-progress turn; when tts_done of a turn is
\* handled after its stt_done and its llm_done, in that order from no turn in
\* progress, exactly one turn is appended, it carries the five values of that
\* turn, and no turn is in progress; a tts_done handled with no turn in progress
\* appends nothing.
C29_StagesFillOneTurn ==
  [][(detail.queue # <<>> /\ detail'.queue = Tail(detail.queue)
      /\ detail'.live = "open" /\ Head(detail.queue).event = "tts_done") =>
       LET k == Head(detail.queue).k
       IN /\ Len(detail'.currentTurn) = 0
          /\ SelectSeq(detail.seen, LAMBDA e : e[1] # "tts_start")
               = <<<<"stt_done", k>>, <<"llm_done", k>>>>
             => detail'.turns = Append(detail.turns, SrvTurn(k))
          /\ detail.currentTurn = <<>> => detail'.turns = detail.turns]_vars

\* C29 witness: the three stage events of the second turn were handled in
\* order and the turn was appended after the first.
C29_Witness ==
  /\ detail.appended = 1 /\ detail.seen = <<>> /\ detail.currentTurn = <<>>
  /\ detail.fetch = "pending"
  /\ detail.turns = <<SrvTurn(1), SrvTurn(2)>>

\* C30: a call that received start with call id CA123, one silent media frame
\* and then stop has a session for CA123 that is finalized once with an empty
\* turn list and no partial turn; no transcription, reply or synthesis call was
\* made.
C30_SilentCallHasNoTurns ==
  (call.state = "ended" /\ call.startId = "CA123" /\ call.frames = <<5>>) =>
    /\ call.call_id = "CA123" /\ call.ended = 1
    /\ call.turns = <<>> /\ call.partial = <<>>
    /\ call.stt = 0 /\ call.llm = 0 /\ call.tts = 0

\* C30 witness: the call CA123 has ended after one silent frame.
C30_Witness ==
  /\ call.state = "ended" /\ call.startId = "CA123" /\ call.frames = <<5>>
  /\ call.turns = <<>>

\* MediaRecorders in state "recording"
Recorders == (IF recorderRef = "recording" THEN 1 ELSE 0) + strayRecorders

\* C31: a session has at most one recorder in the recording state and at most
\* one VAD poll scheduled.
C31_OneRecorderOneLoop == Recorders <= 1 /\ rafQueue <= 1

\* some invocation is awaiting a stage call, playing its reply (play() called,
\* audio not ended) or awaiting its end-of-session request
Busy ==
  \E r \in Runs :
     \/ runs[r].pc \in Stages \/ runs[r].pc = "play"
     \/ Playing(r) \/ runs[r].endSession = "pending"

\* C32: in continuous mode, while isListening is true and no stop has been
\* requested, a recorder is recording with a VAD poll scheduled, or a stage
\* call is outstanding, or reply audio is playing, or an end-of-session request
\* is pending (turns within the bound of the model).
C32_ContinuousNeverStuck ==
  (continuousVoiceMode /\ isListening /\ ~userRequestedStopRef
   /\ nRuns <= MaxTurns) =>
    \/ recorderRef = "recording" /\ rafQueue > 0
    \/ Busy

\* the events of the pipeline: a stage call resolves or rejects, playback
\* begins, is refused or ends
PipelineOps ==
  {"transcribeDone", "chatDone", "ttsDone", "audioStarted", "audioPlayRejected",
   "audioEnded"} \cup FailOps

\* a stop was requested, by the user or by the callback that ends the session
\* after an end_conversation reply, and startListening has not been called since
StopRequested == gStopped \/ userRequestedStopRef

\* the step handles a pipeline event
PipelineStep == gOp' \in PipelineOps /\ runs' # runs

\* C33: a pipeline event handled while a stop is requested restarts no
\* recording and starts no recorder, and the stop stays requested.
C33_NoRestartAfterStop ==
  [][(StopRequested /\ PipelineStep) =>
       /\ gRestarts' = 0 /\ Recorders' <= Recorders
       /\ StopRequested']_vars

\* C33 witness: in continuous mode a turn whose reply has no end_conversation
\* has finished by an event handled while a stop was requested, and no
\* recording was restarted.
C33_Witness ==
  /\ StopRequested /\ gOp \in PipelineOps /\ continuousVoiceMode /\ gRun > 0
  /\ runs[gRun].pc = "returned" /\ ~runs[gRun].endConversation
  /\ gRestarts = 0 /\ ~Capturing

\* C34: the silence timer is set only while has_spoken is true, and it was
\* started no earlier than MIN_RECORDING_MS after the recording started;
\* consequently a poll signals end-of-utterance no earlier than
\* MIN_RECORDING_MS plus SILENCE_MS after the recording started.
C34_TimerAfterSpeechAndMinimum ==
  /\ silenceStartRef # NULL =>
       /\ hasSpokenRef /\ recordingStartRef # NULL
       /\ silenceStartRef - recordingStartRef >= MIN_RECORDING_MS
       /\ now >= silenceStartRef
  /\ (gObs.polled /\ gEou) => gObs.elapsed >= MIN_RECORDING_MS + SILENCE_MS

\* C34 witness: end-of-utterance signalled exactly MIN_RECORDING_MS plus
\* SILENCE_MS after the recording started.
C34_Witness ==
  /\ gOp = "checkVolume" /\ gObs.polled /\ gEou
  /\ gObs.elapsed = MIN_RECORDING_MS + SILENCE_MS

\* some invocation is suspended at a stage call or at the play() it awaits
TurnPending == \E r \in Runs : runs[r].pc \in Stages \cup {"play"}

\* C35: isProcessing is true only while a transcription, reply or synthesis
\* call, or an awaited start of playback, of a turn is pending; and after the
\* event by which a turn finishes (success, empty transcript or stage failure)
\* it is false.
C35_ProcessingOnlyWhilePending ==
  /\ [](isProcessing => TurnPending)
  /\ [][\A r \in Runs :
          (runs[r].pc # "returned" /\ runs'[r].pc = "returned")
            => ~isProcessing']_vars

\* C35 witness: the synthesis call of a turn has failed and isProcessing is
\* false again.
C35_Witness ==
  /\ gOp = "ttsFail" /\ runs[gRun].pc = "returned" /\ runs[gRun].errs = 1
  /\ ~isProcessing /\ ~TurnPending

\* C36: once end() has been called the end promise is eventually resolved,
\* whether end() was called before or after the connection opened.
C36_EndEventuallyResolves == ws.endCalled ~> ws.resolved

\* C37: the end promise is resolved at most once: after it is resolved, no
\* fragment and no event changes its value or the handler that resolved it,
\* and it is resolved exactly when one of done, server error, transport error
\* or close has resolved it.
C37_ResolvedOnce ==
  /\ [](ws.resolved <=> ws.how \in {"done", "error", "onerror", "onclose"})
  /\ [][ws.resolved =>
          /\ ws'.resolved /\ ws'.result = ws.result /\ ws'.how = ws.how]_vars

\* C37 witness: a server error resolved the promise after fragments with text
\* had been received, the close followed, and the value is still the one of
\* the error.
C37_Witness ==
  /\ ws.how = "error" /\ ws.readyState = "CLOSED" /\ ws.endCalled
  /\ Join(NonEmpty(ws.received)) # <<>> /\ ws.result = <<>>

\* C38: when a server error message resolves the end promise, the transcript
\* is the empty string whatever fragments were received.
C38_ServerErrorGivesEmpty ==
  [][(ws.how = "none" /\ ws'.how = "error") => ws'.result = <<>>]_vars

\* C38 witness: a server error resolved a session that had received two
\* fragments with text.
C38_Witness ==
  /\ ws.how = "error" /\ ws.readyState = "OPEN"
  /\ ws.received = <<<<"a">>, <<"a">>>> /\ ws.result = <<>>

\* the chunk messages handed to the connection, in order
PcmSent == SelectSeq(ws.sent, LAMBDA m : m.kind = "pcm")

\* the number of chunks passed to sendChunk before end()
ChunksBeforeEnd == IF ws.endCalled THEN ws.endAt ELSE ws.chunks

\* C39: the chunks passed to sendChunk before end() have been handed to the
\* connection in capture order, each exactly once, after the configuration
\* message and before the end message; none is dropped and no chunk follows
\* the end message.
C39_ChunksDeliveredInOrder ==
  /\ Len(PcmSent) >= ChunksBeforeEnd
  /\ \A i \in 1..Len(PcmSent) : PcmSent[i].seq = i
  /\ \A i, j \in 1..Len(ws.sent) :
       (ws.sent[i].kind = "pcm" /\ ws.sent[j].kind = "config") => j < i
  /\ \A i, j \in 1..Len(ws.sent) :
       (ws.sent[i].kind = "pcm" /\ ws.sent[j].kind = "end") => i < j

\* the values of the in-progress turn that the page displays all come from the
\* stage events of turn k
PartialOf(k) ==
  /\ detail.currentTurn[1].user_text \in {NULL, k}
  /\ detail.currentTurn[1].stt_ms \in {NULL, SttMs(k)}
  /\ detail.currentTurn[1].assistant_text \in {NULL, k}
  /\ detail.currentTurn[1].llm_ms \in {NULL, LlmMs(k)}

\* C40: the in-progress turn of the call-detail page shows values of one turn
\* only: after a turn was aborted without tts_done, the text and the latencies
\* of the aborted turn are not shown with those of the next turn.
C40_PartialShowsCurrentTurnOnly ==
  detail.currentTurn # <<>> => \E k \in 1..MaxCallTurns : PartialOf(k)

====
